---- MODULE Spec2Model ----
(***************************************************************************)
(* A model of the moving-average-crossover backtesting engine:            *)
(* TechnicalIndicators (SMA, EMA, RSI, MACD, StdDev, BollingerBand) and   *)
(* Backtester (run, enterPosition, exitPosition, checkStopLoss,           *)
(* checkTakeProfit, calculateKellyFraction, calculateMetrics).            *)
(*                                                                         *)
(* A C++ double is modelled as an exact rational <<n, d>> in lowest terms  *)
(* with d > 0, extended with the IEEE specials NaN = <<0, 0>>,            *)
(* +inf = <<1, 0>> and -inf = <<-1, 0>>.  Rounding is not modelled.       *)
(* A vector index i of the code is position i + 1 of a TLA+ sequence.     *)
(***************************************************************************)
EXTENDS Integers, Sequences, FiniteSets, TLC

(***************************************************************************)
(* double arithmetic                                                       *)
(***************************************************************************)
Abs(n) == IF n < 0 THEN -n ELSE n

Sgn(n) == IF n < 0 THEN -1 ELSE IF n > 0 THEN 1 ELSE 0

RECURSIVE GCD(_, _)
GCD(a, b) == IF b = 0 THEN a ELSE GCD(b, a % b)

Norm(n, d) ==
    LET g == GCD(Abs(n), Abs(d))
    IN  IF d = 0 THEN <<Sgn(n), 0>>
        ELSE <<Sgn(d) * (n \div g), Abs(d) \div g>>

R(n) == <<n, 1>>

Frac(n, d) == Norm(n, d)

Zero == R(0)

One == R(1)

NaN == <<0, 0>>

IsNaN(x) == x[2] = 0 /\ x[1] = 0

IsInf(x) == x[2] = 0 /\ x[1] # 0

RNeg(x) == <<-x[1], x[2]>>

RAdd(x, y) ==
    IF IsNaN(x) \/ IsNaN(y) THEN NaN
    ELSE IF IsInf(x) THEN (IF IsInf(y) /\ y[1] # x[1] THEN NaN ELSE x)
    ELSE IF IsInf(y) THEN y
    ELSE LET g == GCD(x[2], y[2])
         IN  Norm(x[1] * (y[2] \div g) + y[1] * (x[2] \div g), (x[2] \div g) * y[2])

RSub(x, y) == RAdd(x, RNeg(y))

RMul(x, y) ==
    IF IsNaN(x) \/ IsNaN(y) THEN NaN
    ELSE IF IsInf(x) \/ IsInf(y) THEN <<Sgn(x[1]) * Sgn(y[1]), 0>>
    ELSE LET g1 == GCD(Abs(x[1]), y[2])
             g2 == GCD(Abs(y[1]), x[2])
         IN  IF x[1] = 0 \/ y[1] = 0 THEN Zero
             ELSE <<(x[1] \div g1) * (y[1] \div g2), (x[2] \div g2) * (y[2] \div g1)>>

RDiv(x, y) ==
    IF IsNaN(x) \/ IsNaN(y) THEN NaN
    ELSE IF IsInf(y) THEN (IF IsInf(x) THEN NaN ELSE Zero)
    ELSE IF y[1] = 0 THEN <<Sgn(x[1]), 0>>
    ELSE RMul(x, <<Sgn(y[1]) * y[2], Abs(y[1])>>)

RLt(x, y) ==
    IF IsNaN(x) \/ IsNaN(y) THEN FALSE
    ELSE IF IsInf(x) \/ IsInf(y)
         THEN (IF IsInf(x) THEN x[1] ELSE 0) < (IF IsInf(y) THEN y[1] ELSE 0)
    ELSE LET g == GCD(x[2], y[2])
         IN  x[1] * (y[2] \div g) < y[1] * (x[2] \div g)

RGt(x, y) == RLt(y, x)

RLe(x, y) == ~IsNaN(x) /\ ~IsNaN(y) /\ ~RLt(y, x)

RGe(x, y) == RLe(y, x)

REq(x, y) == ~IsNaN(x) /\ ~IsNaN(y) /\ x = y

\* std::min(a, b) is (b < a) ? b : a and std::max(a, b) is (a < b) ? b : a
StdMin(a, b) == IF RLt(b, a) THEN b ELSE a

StdMax(a, b) == IF RLt(a, b) THEN b ELSE a

(***************************************************************************)
(* std::vector<double> helpers                                             *)
(***************************************************************************)
At(v, i) == v[i + 1]

Put(v, i, x) == [v EXCEPT ![i + 1] = x]

Fill(n, x) == [k \in 1..n |-> x]

\* TLC evaluates operator arguments lazily; each loop below forces the value
\* of an iteration before it starts the next one
Forced(v) == v = v

\* prices[lo] + ... + prices[hi]
RECURSIVE RangeSum(_, _, _)
RangeSum(prices, lo, hi) ==
    IF lo > hi THEN Zero
    ELSE IF lo = hi THEN At(prices, lo)
    ELSE LET mid == (lo + hi) \div 2
         IN  RAdd(RangeSum(prices, lo, mid), RangeSum(prices, mid + 1, hi))

(***************************************************************************)
(* TechnicalIndicators::SMA.  The code keeps a running sum (add the        *)
(* newest price, subtract the oldest); in exact arithmetic that sum at     *)
(* index idx is the sum of the window prices[idx-period+1 .. idx].         *)
(***************************************************************************)
SMAWarmUp(period) == period - 1

\* the indices SMA reads of prices and writes of sma, for a series of n prices
SMAAccess(n, period) ==
    IF n < period THEN [prices |-> {}, result |-> {}]
    ELSE [prices |-> (0..(period - 1))
                        \cup UNION { {idx - period, idx} : idx \in period..(n - 1) },
          result |-> {period - 1} \cup (period..(n - 1))]

\* mutant of SMA: the warm-up entries hold the average of the prices so far
SMAFromFirstBar(prices, period) ==
    [k \in 1..Len(prices) |->
        IF k < period THEN RDiv(RangeSum(prices, 0, k - 1), R(k))
        ELSE RDiv(RangeSum(prices, k - period, k - 1), R(period))]

SMA(prices, period) ==
    [k \in 1..Len(prices) |->
        IF Len(prices) < period \/ k - 1 < SMAWarmUp(period) THEN Zero
        ELSE RDiv(RangeSum(prices, k - period, k - 1), R(period))]

(***************************************************************************)
(* TechnicalIndicators::EMA                                                *)
(***************************************************************************)
RECURSIVE EMALoop(_, _, _, _)
EMALoop(prices, multiplier, idx, ema) ==
    IF idx >= Len(prices) THEN ema
    ELSE LET prev == At(ema, idx - 1)
             e == RAdd(RMul(RSub(At(prices, idx), prev), multiplier), prev)
             next == Put(ema, idx, e)
         IN  IF Forced(next) THEN EMALoop(prices, multiplier, idx + 1, next)
             ELSE next

\* the indices EMA reads of prices and reads or writes of ema
EMAAccess(n, period) ==
    IF n < period THEN [prices |-> {}, result |-> {}]
    ELSE [prices |-> (0..(period - 1)) \cup (period..(n - 1)),
          result |-> {period - 1}
                        \cup UNION { {idx - 1, idx} : idx \in period..(n - 1) }]

EMA(prices, period) ==
    LET ema == Fill(Len(prices), Zero)
        sum == RangeSum(prices, 0, period - 1)
        multiplier == RDiv(R(2), RAdd(R(period), One))
    IN  IF Len(prices) < period THEN ema
        ELSE EMALoop(prices, multiplier, period,
                     Put(ema, period - 1, RDiv(sum, R(period))))

(***************************************************************************)
(* TechnicalIndicators::RSI                                                *)
(***************************************************************************)
RSINeutral == 50

RSIValue(avgGain, avgLoss) ==
    LET rs == IF REq(avgLoss, Zero) THEN R(100) ELSE RDiv(avgGain, avgLoss)
    IN  RSub(R(100), RDiv(R(100), RAdd(One, rs)))

\* the initial calculation: <<sum of gains, sum of losses>> over deltas 1..n
RECURSIVE RSIInitial(_, _)
RSIInitial(prices, n) ==
    IF n = 0 THEN <<Zero, Zero>>
    ELSE LET acc == RSIInitial(prices, n - 1)
             change == RSub(At(prices, n), At(prices, n - 1))
         IN  IF ~Forced(acc) THEN acc
             ELSE IF RGt(change, Zero) THEN <<RAdd(acc[1], change), acc[2]>>
             ELSE <<acc[1], RAdd(acc[2], RNeg(change))>>

RECURSIVE RSILoop(_, _, _, _, _, _)
RSILoop(prices, period, idx, avgGain, avgLoss, rsi) ==
    IF idx >= Len(prices) THEN rsi
    ELSE LET change == RSub(At(prices, idx), At(prices, idx - 1))
             gain == IF RGt(change, Zero) THEN change ELSE Zero
             loss == IF RLt(change, Zero) THEN RNeg(change) ELSE Zero
             g == RDiv(RAdd(RMul(avgGain, R(period - 1)), gain), R(period))
             l == RDiv(RAdd(RMul(avgLoss, R(period - 1)), loss), R(period))
             next == Put(rsi, idx, RSIValue(g, l))
         IN  IF Forced(<<g, l, next>>)
             THEN RSILoop(prices, period, idx + 1, g, l, next)
             ELSE next

RSI(prices, period) ==
    LET rsi == Fill(Len(prices), R(RSINeutral))
        acc == RSIInitial(prices, period)
        avgGain == RDiv(acc[1], R(period))
        avgLoss == RDiv(acc[2], R(period))
    IN  IF Len(prices) < period + 1 THEN rsi
        ELSE RSILoop(prices, period, period + 1, avgGain, avgLoss,
                     Put(rsi, period, RSIValue(avgGain, avgLoss)))

(***************************************************************************)
(* TechnicalIndicators::MACD (only the histogram is read by the engine)    *)
(***************************************************************************)
MACDFastPeriod == 12

MACDSlowPeriod == 26

MACDSignalPeriod == 9

MACD(prices) ==
    LET fastEMA == EMA(prices, MACDFastPeriod)
        slowEMA == EMA(prices, MACDSlowPeriod)
        macd == [k \in 1..Len(prices) |-> RSub(fastEMA[k], slowEMA[k])]
        signal == EMA(macd, MACDSignalPeriod)
        histogram == [k \in 1..Len(prices) |-> RSub(macd[k], signal[k])]
    IN  [macd |-> macd, signal |-> signal, histogram |-> histogram]

(***************************************************************************)
(* TechnicalIndicators::StdDev and BollingerBand.  std::sqrt leaves the    *)
(* rationals, so StdDev holds stddev[i]^2 and an upper band is the pair    *)
(* [mid, sq] standing for mid + sqrt(sq); AboveUpper compares by squaring. *)
(***************************************************************************)
BollingerPeriod == 20

BollingerNumStdDev == 2

\* (prices[lo] - mean)^2 + ... + (prices[hi] - mean)^2
RECURSIVE SquaredDiffs(_, _, _, _)
SquaredDiffs(prices, mean, lo, hi) ==
    IF lo > hi THEN Zero
    ELSE IF lo = hi
         THEN LET diff == RSub(At(prices, lo), mean) IN RMul(diff, diff)
    ELSE LET mid == (lo + hi) \div 2
         IN  RAdd(SquaredDiffs(prices, mean, lo, mid),
                  SquaredDiffs(prices, mean, mid + 1, hi))

StdDev(prices, period) ==
    LET sma == SMA(prices, period)
    IN  [k \in 1..Len(prices) |->
            IF k - 1 >= period - 1
            THEN RDiv(SquaredDiffs(prices, sma[k], k - period, k - 1), R(period))
            ELSE Zero]

BollingerBand(prices) ==
    LET middle == SMA(prices, BollingerPeriod)
        stddev == StdDev(prices, BollingerPeriod)
        k2 == R(BollingerNumStdDev * BollingerNumStdDev)
    IN  [middle |-> middle,
         upper |-> [k \in 1..Len(prices) |->
                       [mid |-> middle[k], sq |-> RMul(k2, stddev[k])]]]

\* closes[i] > bb.upper[i]
AboveUpper(close, u) ==
    LET d == RSub(close, u.mid)
    IN  RGt(d, Zero) /\ RGt(RMul(d, d), u.sq)

(***************************************************************************)
(* Backtester: the constructor's arguments, the ledger, the trade log and  *)
(* the position of run() (pc, its loop index i and its indicator vectors). *)
(***************************************************************************)
VARIABLES data, shortPeriod, longPeriod, initialCapital,
          useRSI, useEMA, useMACD, useBollinger,
          stopLossPercent, takeProfitPercent, commissionRate, useKellyCriterion,
          currentCash, currentShares, inPosition, trades,
          pc, i, shortMA, longMA, rsi, macdData, bb, reported,
          arg, out

params == <<data, shortPeriod, longPeriod, initialCapital,
            useRSI, useEMA, useMACD, useBollinger,
            stopLossPercent, takeProfitPercent, commissionRate, useKellyCriterion>>

ledger == <<currentCash, currentShares, inPosition>>

indicators == <<shortMA, longMA, rsi, macdData, bb>>

\* the arguments and the return value of a function called on its own
call == <<arg, out>>

vars == <<params, ledger, trades, pc, i, indicators, reported, call>>

\* no stand-alone call is in progress
NoCall == "none"

\* an empty std::string, and a double that was never assigned
NoDate == ""

Uninit == <<0, -1>>

Bar(date, open, close) == [date |-> date, open |-> open, close |-> close]

Closes == [k \in 1..Len(data) |-> data[k].close]

RSIPeriod == 14

Overbought == 70

KellyMinTrades == 5

\* mutant of BackIndex: trades.front() in place of trades.back()
FrontIndex == IF trades = <<>> THEN 0 ELSE 1

\* the index of trades.back()
BackIndex == Len(trades)

(***************************************************************************)
(* Backtester::checkStopLoss, checkTakeProfit                              *)
(***************************************************************************)
\* mutant of checkStopLoss: the stop loss never triggers
NoStopLoss(idx) == FALSE

checkStopLoss(idx) ==
    IF RLe(stopLossPercent, Zero) \/ trades = <<>> THEN FALSE
    ELSE LET currentPrice == At(data, idx).close
             entryPrice == trades[BackIndex].entryPrice
             pnlPercent == RDiv(RSub(currentPrice, entryPrice), entryPrice)
         IN  RLe(pnlPercent, RNeg(stopLossPercent))

\* mutant of checkTakeProfit: the guard on a configured percent <= 0 is missing
UnguardedTakeProfit(idx) ==
    IF trades = <<>> THEN FALSE
    ELSE LET currentPrice == At(data, idx).close
             entryPrice == trades[BackIndex].entryPrice
             pnlPercent == RDiv(RSub(currentPrice, entryPrice), entryPrice)
         IN  RGe(pnlPercent, takeProfitPercent)

checkTakeProfit(idx) ==
    IF RLe(takeProfitPercent, Zero) \/ trades = <<>> THEN FALSE
    ELSE LET currentPrice == At(data, idx).close
             entryPrice == trades[BackIndex].entryPrice
             pnlPercent == RDiv(RSub(currentPrice, entryPrice), entryPrice)
         IN  RGe(pnlPercent, takeProfitPercent)

(***************************************************************************)
(* Backtester::calculateKellyFraction                                      *)
(***************************************************************************)
\* the loop over the trade log: <<wins, totalWinAmount, totalLossAmount>>
RECURSIVE KellyTotals(_, _)
KellyTotals(log, n) ==
    IF n = 0 THEN <<0, Zero, Zero>>
    ELSE LET acc == KellyTotals(log, n - 1)
             t == log[n]
         IN  IF ~Forced(acc) THEN acc
             ELSE IF RGt(t.pnl, Zero)
             THEN <<acc[1] + 1, RAdd(acc[2], t.returnPct), acc[3]>>
             ELSE <<acc[1], acc[2], RAdd(acc[3], RNeg(t.returnPct))>>

\* mutant of KellyOf: half Kelly is returned without the clamp to [0, 1]
KellyUnclamped(log) ==
    LET acc == KellyTotals(log, Len(log))
        wins == acc[1]
        winRate == Frac(wins, Len(log))
        avgWin == RDiv(acc[2], R(wins))
        avgLoss == RDiv(acc[3], R(Len(log) - wins))
        kelly == RSub(winRate, RDiv(RSub(One, winRate), RDiv(avgWin, avgLoss)))
    IN  IF Len(log) < KellyMinTrades THEN One
        ELSE IF wins = 0 \/ wins = Len(log) THEN One
        ELSE IF REq(avgLoss, Zero) THEN One
        ELSE RMul(kelly, Frac(1, 2))

KellyOf(log) ==
    LET acc == KellyTotals(log, Len(log))
        wins == acc[1]
        winRate == Frac(wins, Len(log))
        avgWin == RDiv(acc[2], R(wins))
        avgLoss == RDiv(acc[3], R(Len(log) - wins))
        kelly == RSub(winRate, RDiv(RSub(One, winRate), RDiv(avgWin, avgLoss)))
    IN  IF Len(log) < KellyMinTrades THEN One
        ELSE IF wins = 0 \/ wins = Len(log) THEN One
        ELSE IF REq(avgLoss, Zero) THEN One
        ELSE StdMax(Zero, StdMin(RMul(kelly, Frac(1, 2)), One))

calculateKellyFraction == KellyOf(trades)

(***************************************************************************)
(* Backtester::enterPosition                                               *)
(***************************************************************************)
EntryFillPrice(idx) ==
    IF idx + 1 < Len(data) /\ RGt(At(data, idx + 1).open, Zero)
    THEN At(data, idx + 1).open
    ELSE At(data, idx).close

AvailableCash == RSub(currentCash, RMul(currentCash, commissionRate))

PositionFraction ==
    IF useKellyCriterion /\ Len(trades) >= KellyMinTrades
    THEN calculateKellyFraction ELSE One

EntryShares(idx) == RDiv(RMul(AvailableCash, PositionFraction), EntryFillPrice(idx))

CashAfterEntry == Zero

OpenedTrade(idx) ==
    [entryDate |-> At(data, idx).date, exitDate |-> NoDate,
     entryPrice |-> EntryFillPrice(idx), exitPrice |-> Uninit,
     shares |-> EntryShares(idx), pnl |-> Uninit, returnPct |-> Uninit]

enterPosition(idx) ==
    /\ currentShares' = EntryShares(idx)
    /\ currentCash' = CashAfterEntry
    /\ inPosition' = TRUE
    /\ trades' = Append(trades, OpenedTrade(idx))

(***************************************************************************)
(* Backtester::exitPosition                                                *)
(***************************************************************************)
\* mutant of ExitFillPrice: an exit always fills at the decision bar's close
CloseFill(idx) == At(data, idx).close

ExitFillPrice(idx) ==
    IF idx + 1 < Len(data) /\ RGt(At(data, idx + 1).open, Zero)
    THEN At(data, idx + 1).open
    ELSE At(data, idx).close

ExitCash(idx) ==
    LET grossProceeds == RMul(currentShares, ExitFillPrice(idx))
        commission == RMul(grossProceeds, commissionRate)
    IN  RSub(grossProceeds, commission)

\* mutant of SharesAfterExit: the shares are not cleared on exit
SharesKept == currentShares

SharesAfterExit == Zero

\* mutant of TradePnl: the pnl of one share in place of the position's
PnlPerShare(cash, t) == RSub(RDiv(cash, t.shares), t.entryPrice)

\* mutant of TradePnl: the pnl is taken against the initial capital
PnlAgainstCapital(cash, t) == RSub(cash, initialCapital)

TradePnl(cash, t) == RSub(cash, RMul(t.shares, t.entryPrice))

TradeReturnPct(pnl, t) == RMul(RDiv(pnl, RMul(t.shares, t.entryPrice)), R(100))

ClosedTrade(t, idx) ==
    LET pnl == TradePnl(ExitCash(idx), t)
    IN  [t EXCEPT !.exitDate = At(data, idx).date,
                  !.exitPrice = ExitFillPrice(idx),
                  !.pnl = pnl,
                  !.returnPct = TradeReturnPct(pnl, t)]

exitPosition(idx) ==
    /\ currentCash' = ExitCash(idx)
    /\ currentShares' = SharesAfterExit
    /\ inPosition' = FALSE
    /\ trades' = [trades EXCEPT ![BackIndex] = ClosedTrade(@, idx)]

(***************************************************************************)
(* Backtester::run: the signals of one bar                                 *)
(***************************************************************************)
\* mutant of InsufficientData: the length check is off by one
ShorterThanLongPeriod == Len(data) < longPeriod

InsufficientData == Len(data) < longPeriod + 1

currentCross(idx) == RGt(At(shortMA, idx), At(longMA, idx))

previousCross(idx) == RGt(At(shortMA, idx - 1), At(longMA, idx - 1))

CrossEntry(idx) == idx > 0 /\ currentCross(idx) /\ ~previousCross(idx)

\* mutant of exitSignal: the Bollinger filter is applied to the exit too
FilteredExit(idx) ==
    /\ idx > 0
    /\ ~currentCross(idx) /\ previousCross(idx)
    /\ ~(useBollinger /\ AboveUpper(At(Closes, idx), At(bb.upper, idx)))

exitSignal(idx) ==
    idx > 0 /\ ~CrossEntry(idx) /\ ~currentCross(idx) /\ previousCross(idx)

RSIBlocks(idx) == useRSI /\ RGe(At(rsi, idx), R(Overbought))

MACDBlocks(idx) == useMACD /\ RLe(At(macdData.histogram, idx), Zero)

BollingerBlocks(idx) == useBollinger /\ AboveUpper(At(Closes, idx), At(bb.upper, idx))

entrySignal(idx) ==
    /\ CrossEntry(idx)
    /\ ~RSIBlocks(idx)
    /\ ~MACDBlocks(idx)
    /\ ~BollingerBlocks(idx)

RiskExit(idx) == inPosition /\ (checkStopLoss(idx) \/ checkTakeProfit(idx))

(***************************************************************************)
(* Backtester::run: its steps                                              *)
(***************************************************************************)
NoVectors == [macd |-> <<>>, signal |-> <<>>, histogram |-> <<>>]

NoBands == [middle |-> <<>>, upper |-> <<>>]

\* the early return on a series shorter than longPeriod + 1
RunInsufficient ==
    /\ pc = "constructed"
    /\ InsufficientData
    /\ reported' = TRUE
    /\ pc' = "done"
    /\ UNCHANGED <<params, call, ledger, trades, i, indicators>>

\* the indicator vectors are computed and the loop starts at longPeriod
RunStart ==
    /\ pc = "constructed"
    /\ ~InsufficientData
    /\ shortMA' = IF useEMA THEN EMA(Closes, shortPeriod) ELSE SMA(Closes, shortPeriod)
    /\ longMA' = IF useEMA THEN EMA(Closes, longPeriod) ELSE SMA(Closes, longPeriod)
    /\ rsi' = IF useRSI THEN RSI(Closes, RSIPeriod) ELSE <<>>
    /\ macdData' = IF useMACD THEN MACD(Closes) ELSE NoVectors
    /\ bb' = IF useBollinger THEN BollingerBand(Closes) ELSE NoBands
    /\ i' = longPeriod
    /\ pc' = "loop"
    /\ UNCHANGED <<params, call, ledger, trades, reported>>

InLoop == pc = "loop" /\ i < Len(data)

NextBar == i' = i + 1 /\ UNCHANGED <<params, call, pc, indicators, reported>>

StopLossExit ==
    /\ InLoop
    /\ inPosition
    /\ checkStopLoss(i)
    /\ exitPosition(i)
    /\ NextBar

TakeProfitExit ==
    /\ InLoop
    /\ inPosition
    /\ ~checkStopLoss(i)
    /\ checkTakeProfit(i)
    /\ exitPosition(i)
    /\ NextBar

EnterOnSignal ==
    /\ InLoop
    /\ ~RiskExit(i)
    /\ entrySignal(i) /\ ~inPosition
    /\ enterPosition(i)
    /\ NextBar

ExitOnSignal ==
    /\ InLoop
    /\ ~RiskExit(i)
    /\ ~(entrySignal(i) /\ ~inPosition)
    /\ exitSignal(i) /\ inPosition
    /\ exitPosition(i)
    /\ NextBar

NoTrade ==
    /\ InLoop
    /\ ~RiskExit(i)
    /\ ~(entrySignal(i) /\ ~inPosition)
    /\ ~(exitSignal(i) /\ inPosition)
    /\ UNCHANGED <<ledger, trades>>
    /\ NextBar

\* mutant of OpenAtEnd: the final close is left out
NeverOpenAtEnd == FALSE

\* after the loop: close any open position at the last bar
OpenAtEnd == inPosition

FinalClose ==
    /\ pc = "loop"
    /\ i >= Len(data)
    /\ OpenAtEnd
    /\ exitPosition(Len(data) - 1)
    /\ pc' = "done"
    /\ UNCHANGED <<params, call, i, indicators, reported>>

RunReturn ==
    /\ pc = "loop"
    /\ i >= Len(data)
    /\ ~OpenAtEnd
    /\ pc' = "done"
    /\ UNCHANGED <<params, call, ledger, trades, i, indicators, reported>>

Next ==
    \/ RunInsufficient
    \/ RunStart
    \/ StopLossExit
    \/ TakeProfitExit
    \/ EnterOnSignal
    \/ ExitOnSignal
    \/ NoTrade
    \/ FinalClose
    \/ RunReturn

(***************************************************************************)
(* Backtester::calculateMetrics: the total return, in percent              *)
(***************************************************************************)
finalValue ==
    RAdd(currentCash,
         IF inPosition THEN RMul(currentShares, At(data, Len(data) - 1).close)
         ELSE Zero)

totalReturn ==
    RMul(RDiv(RSub(finalValue, initialCapital), initialCapital), R(100))

(***************************************************************************)
(* Backtester::calculateMaxDrawdown: the replay of the trade log over the  *)
(* bars from longPeriod on                                                 *)
(***************************************************************************)
ReplayStart ==
    [peak |-> initialCapital, maxDD |-> Zero, equity |-> initialCapital,
     tradeIdx |-> 0, holding |-> FALSE, entryPrice |-> Zero, shares |-> Zero]

\* one iteration of the loop, at bar idx
ReplayBar(st, log, idx) ==
    LET bar == At(data, idx)
        hasTrade == st.tradeIdx < Len(log)
        t == At(log, st.tradeIdx)
        enters == hasTrade /\ ~st.holding /\ bar.date = t.entryDate
        holds == hasTrade /\ (st.holding \/ enters)
        exits == holds /\ bar.date = t.exitDate
        shares == IF enters THEN t.shares ELSE st.shares
        equity == IF exits THEN RMul(shares, t.exitPrice)
                  ELSE IF holds THEN RMul(shares, bar.close)
                  ELSE st.equity
        peak == IF RGt(equity, st.peak) THEN equity ELSE st.peak
        dd == RMul(RDiv(RSub(peak, equity), peak), R(100))
    IN  [peak |-> peak,
         maxDD |-> IF RGt(dd, st.maxDD) THEN dd ELSE st.maxDD,
         equity |-> equity,
         tradeIdx |-> IF exits THEN st.tradeIdx + 1 ELSE st.tradeIdx,
         holding |-> holds /\ ~exits,
         entryPrice |-> IF enters THEN t.entryPrice ELSE st.entryPrice,
         shares |-> shares]

\* the loop's state after the bars longPeriod .. last
RECURSIVE ReplayUpTo(_, _)
ReplayUpTo(log, last) ==
    IF last < longPeriod THEN ReplayStart
    ELSE LET st == ReplayUpTo(log, last - 1)
         IN  IF Forced(st) THEN ReplayBar(st, log, last) ELSE st

calculateMaxDrawdown ==
    IF data = <<>> THEN Zero ELSE ReplayUpTo(trades, Len(data) - 1).maxDD

(***************************************************************************)
(* The constructor's arguments.  Every series is chronological with        *)
(* distinct date labels; an open of 0 is a malformed field as the CSV      *)
(* parser substitutes it.                                                  *)
(***************************************************************************)
MaxBars == 5

DateOf(idx) == ToString(idx)

Options(sp, lp, capital, r, e, m, b, sl, tp, c, k) ==
    [shortMA |-> sp, longMA |-> lp, capital |-> capital,
     rsi |-> r, ema |-> e, macd |-> m, bollinger |-> b,
     stopLoss |-> sl, takeProfit |-> tp, commission |-> c, kelly |-> k]

DefaultCapital == R(100000)

\* short series over three close levels; an open is read only as the fill
\* of a decision taken at index >= longPeriod, so earlier opens repeat the close
ShortSeries ==
    UNION { { [k \in 1..n |-> Bar(DateOf(k - 1),
                                  IF k > 3 THEN o[k] ELSE c[k], c[k])] :
                c \in [1..n -> {R(1), R(2), R(3)}],
                o \in [4..n -> {Zero, R(4)}] } :
            n \in 0..MaxBars }

ShortOptions ==
    { Options(1, 2, DefaultCapital, FALSE, FALSE, FALSE, FALSE, sl, tp, c, FALSE) :
        sl \in {Zero, Frac(1, 4)}, tp \in {Zero, Frac(1, 2)},
        c \in {Zero, Frac(1, 100)} }
    \cup
    { Options(1, 2, DefaultCapital, r, FALSE, m, b, Frac(1, 4), Zero,
              Frac(1, 100), TRUE) :
        r \in BOOLEAN, m \in BOOLEAN, b \in BOOLEAN }
    \cup
    { Options(1, 2, DefaultCapital, FALSE, TRUE, FALSE, FALSE, Frac(1, 4),
              Frac(1, 2), Zero, k) : k \in BOOLEAN }
    \cup
    { Options(1, 2, DefaultCapital, FALSE, FALSE, FALSE, FALSE, RNeg(Frac(1, 4)),
              tp, Zero, FALSE) : tp \in {RNeg(Frac(1, 2)), Frac(1, 2)} }

\* a zigzag of closes 2,1,2,1,... (or 1,2,1,2,...) crosses at every bar, so a
\* run completes a trade every two bars: the histories Kelly sizing reads
ZigzagLen == 13

ZigzagSeries ==
    { [k \in 1..ZigzagLen |->
          Bar(DateOf(k - 1), IF k > 3 THEN o[k] ELSE R(1),
              IF (k + phase) % 2 = 1 THEN R(2) ELSE R(1))] :
        phase \in {0, 1}, o \in [4..ZigzagLen -> {R(1), R(2)}] }

ZigzagOptions ==
    { Options(1, 2, DefaultCapital, FALSE, FALSE, m, FALSE, Zero, Zero, Zero, k) :
        m \in BOOLEAN, k \in BOOLEAN }

\* BollingerPeriod flat bars, then a few free bars: the series on which the
\* RSI and Bollinger filters leave their warm-up
TailBars == 5

LateSeries ==
    { [k \in 1..(BollingerPeriod + TailBars) |->
          Bar(DateOf(k - 1), Zero,
              IF k > BollingerPeriod THEN c[k] ELSE R(2))] :
        c \in [(BollingerPeriod + 1)..(BollingerPeriod + TailBars) ->
                 {R(1), R(2), R(3)}] }

LateOptions ==
    { Options(1, 2, DefaultCapital, r, FALSE, FALSE, b, Zero, Zero, Zero, FALSE) :
        r \in BOOLEAN, b \in BOOLEAN }

\* the monotone uptrend: 250 bars rising from 100 by 1 per bar, 10/50 SMA
UptrendSeries ==
    [k \in 1..250 |-> Bar(DateOf(k - 1), R(100 + (k - 1)), R(100 + (k - 1)))]

UptrendOptions ==
    Options(10, 50, DefaultCapital, FALSE, FALSE, FALSE, FALSE, Zero, Zero,
            Frac(1, 1000), FALSE)

(***************************************************************************)
(* Backtester::Backtester                                                  *)
(***************************************************************************)
Construct(series, options) ==
    /\ data = series
    /\ shortPeriod = options.shortMA
    /\ longPeriod = options.longMA
    /\ initialCapital = options.capital
    /\ useRSI = options.rsi
    /\ useEMA = options.ema
    /\ useMACD = options.macd
    /\ useBollinger = options.bollinger
    /\ stopLossPercent = options.stopLoss
    /\ takeProfitPercent = options.takeProfit
    /\ commissionRate = options.commission
    /\ useKellyCriterion = options.kelly
    /\ currentCash = options.capital
    /\ currentShares = Zero
    /\ inPosition = FALSE
    /\ trades = <<>>
    /\ pc = "constructed"
    /\ i = 0
    /\ shortMA = <<>>
    /\ longMA = <<>>
    /\ rsi = <<>>
    /\ macdData = NoVectors
    /\ bb = NoBands
    /\ reported = FALSE
    /\ arg = NoCall
    /\ out = NoCall

Init ==
    \/ \E d \in ShortSeries, o \in ShortOptions : Construct(d, o)
    \/ \E d \in ZigzagSeries, o \in ZigzagOptions : Construct(d, o)
    \/ \E d \in LateSeries, o \in LateOptions : Construct(d, o)
    \/ Construct(UptrendSeries, UptrendOptions)

Spec == Init /\ [][Next]_vars

(***************************************************************************)
(* TechnicalIndicators::SMA and EMA called on their own, on an arbitrary   *)
(* series and period                                                       *)
(***************************************************************************)
\* a backtester that is not running: everything but the trade log
NotRunning ==
    /\ data = <<>>
    /\ shortPeriod = 1 /\ longPeriod = 2
    /\ initialCapital = DefaultCapital
    /\ useRSI = FALSE /\ useEMA = FALSE /\ useMACD = FALSE /\ useBollinger = FALSE
    /\ stopLossPercent = Zero /\ takeProfitPercent = Zero
    /\ commissionRate = Zero
    /\ useKellyCriterion = TRUE
    /\ currentCash = DefaultCapital /\ currentShares = Zero /\ inPosition = FALSE
    /\ i = 0
    /\ shortMA = <<>> /\ longMA = <<>> /\ rsi = <<>>
    /\ macdData = NoVectors /\ bb = NoBands
    /\ reported = FALSE

MaxPeriod == MaxBars + 1

PriceSeries == UNION { [1..n -> {Zero, R(1), R(3)}] : n \in 0..MaxBars }

AverageInit ==
    /\ NotRunning
    /\ trades = <<>>
    /\ pc = "call"
    /\ arg \in [prices : PriceSeries, period : 1..MaxPeriod]
    /\ out = NoCall

CallSMA ==
    /\ pc = "call"
    /\ out' = [of |-> "SMA", series |-> SMA(arg.prices, arg.period),
               access |-> SMAAccess(Len(arg.prices), arg.period)]
    /\ pc' = "returned"
    /\ UNCHANGED <<params, ledger, trades, i, indicators, reported, arg>>

CallEMA ==
    /\ pc = "call"
    /\ out' = [of |-> "EMA", series |-> EMA(arg.prices, arg.period),
               access |-> EMAAccess(Len(arg.prices), arg.period)]
    /\ pc' = "returned"
    /\ UNCHANGED <<params, ledger, trades, i, indicators, reported, arg>>

AverageNext == CallSMA \/ CallEMA

AverageSpec == AverageInit /\ [][AverageNext]_vars

(***************************************************************************)
(* calculateKellyFraction called on its own, on a backtester whose trade   *)
(* log holds an arbitrary history of completed trades                      *)
(***************************************************************************)
MaxTrades == 6

\* a completed trade with a given pnl and returnPct
Completed(pnl, returnPct) ==
    [entryDate |-> "0", exitDate |-> "1", entryPrice |-> One, exitPrice |-> One,
     shares |-> One, pnl |-> pnl, returnPct |-> returnPct]

\* two winners, a flat trade, a loser, and the trade of a position of zero
\* shares, whose returnPct is 0.0 / 0.0
TradeKinds ==
    { Completed(R(100), R(100)), Completed(R(10), R(10)), Completed(Zero, Zero),
      Completed(R(0 - 50), R(0 - 50)), Completed(Zero, NaN) }

Histories == UNION { [1..n -> TradeKinds] : n \in 0..MaxTrades }

KellyInit ==
    /\ NotRunning
    /\ trades \in Histories
    /\ pc = "call"
    /\ arg = "calculateKellyFraction"
    /\ out = NoCall

CallKelly ==
    /\ pc = "call"
    /\ arg = "calculateKellyFraction"
    /\ out' = calculateKellyFraction
    /\ pc' = "returned"
    /\ UNCHANGED <<params, ledger, trades, i, indicators, reported, arg>>

KellyNext == CallKelly

KellySpec == KellyInit /\ [][KellyNext]_vars

(***************************************************************************)
(* Properties                                                              *)
(***************************************************************************)
Finalized(t) == t.exitDate # NoDate

\* C1: after the constructor and after every bar iteration of run(), the
\* final forced close included, currentCash and currentShares are never both
\* nonzero; currentShares == 0 whenever inPosition is false and
\* currentCash == 0 whenever inPosition is true.
C1_LedgerInvariant ==
    /\ ~(currentCash # Zero /\ currentShares # Zero)
    /\ (~inPosition => currentShares = Zero)
    /\ (inPosition => currentCash = Zero)

\* a position re-opened after a completed round trip, holding shares
C1_Witness ==
    /\ inPosition
    /\ Len(trades) >= 2
    /\ RGt(currentShares, Zero)
    /\ Finalized(trades[1])

\* C2: entries and exits strictly alternate starting with an entry: every
\* trade of the log but an open last one is finalized, and the last one is
\* unfinalized iff inPosition; a step appends at most one trade, only when
\* flat, finalizes only the last trade, only when long, and never changes a
\* finalized trade or the entry fields of an open one.
C2_LogShape ==
    \A k \in 1..Len(trades) :
        Finalized(trades[k]) <=> ~(k = Len(trades) /\ inPosition)

C2_LogStep ==
    /\ Len(trades') \in {Len(trades), Len(trades) + 1}
    /\ \A k \in 1..Len(trades) :
          /\ Finalized(trades[k]) => trades'[k] = trades[k]
          /\ trades'[k].entryDate = trades[k].entryDate
          /\ trades'[k].entryPrice = trades[k].entryPrice
          /\ trades'[k].shares = trades[k].shares
          /\ (~Finalized(trades[k]) /\ Finalized(trades'[k]))
                => (k = Len(trades) /\ inPosition /\ ~inPosition'
                    /\ Len(trades') = Len(trades))
    /\ Len(trades') = Len(trades) + 1
          => (~inPosition /\ inPosition' /\ ~Finalized(trades'[Len(trades')]))

C2_TradeLogDiscipline == []C2_LogShape /\ [][C2_LogStep]_vars

\* a second trade is open behind a finalized first one
C2_Witness ==
    /\ Len(trades) = 2
    /\ Finalized(trades[1])
    /\ ~Finalized(trades[2])
    /\ inPosition

\* C3: on a series of at least longPeriod + 1 bars run() ends flat with every
\* trade finalized, and a position still open when the bar loop ends is
\* closed with the last bar's date and the last bar's close.
C3_DoneFlat ==
    (pc = "done" /\ Len(data) >= longPeriod + 1)
        => /\ ~inPosition
           /\ currentShares = Zero
           /\ \A k \in 1..Len(trades) : Finalized(trades[k])

C3_ForcedClose ==
    (pc = "loop" /\ i >= Len(data) /\ inPosition)
        => /\ pc' = "done"
           /\ trades'[Len(trades)].exitDate = data[Len(data)].date
           /\ trades'[Len(trades)].exitPrice = data[Len(data)].close

\* towards termination: every step of run() either returns or moves the loop
\* to the next bar, at most to the end of the series
C3_Advance ==
    /\ pc = "constructed" => pc' \in {"loop", "done"}
    /\ pc = "loop" => \/ pc' = "done" /\ i >= Len(data)
                      \/ pc' = "loop" /\ i' = i + 1 /\ i' <= Len(data)
    /\ pc # "done"

C3_ForcedLiquidation ==
    /\ []C3_DoneFlat
    /\ [][C3_ForcedClose /\ C3_Advance]_vars

\* run() has ended after a forced close: the last trade was opened before
\* the last bar and closed on it while no exit signal was up
C3_Witness ==
    /\ pc = "done"
    /\ trades # <<>>
    /\ trades[Len(trades)].exitDate = data[Len(data)].date
    /\ trades[Len(trades)].entryDate # data[Len(data)].date
    /\ currentCross(Len(data) - 1)
    /\ ~RiskExit(Len(data) - 1)

\* C4: on a series shorter than longPeriod + 1 run() reports and returns
\* without reaching the bar loop: the trade log stays empty and the ledger
\* is as constructed.
C4_StructuralFailure ==
    Len(data) < longPeriod + 1
        => /\ pc \in {"constructed", "done"}
           /\ (pc = "done" => reported)
           /\ trades = <<>>
           /\ currentCash = initialCapital
           /\ currentShares = Zero
           /\ ~inPosition
           /\ shortMA = <<>> /\ longMA = <<>>

\* run() has returned on a series of exactly longPeriod bars
C4_Witness ==
    /\ pc = "done"
    /\ Len(data) = longPeriod
    /\ reported

\* the index of the bar that carries a date label
BarOf(date) == CHOOSE idx \in 0..(Len(data) - 1) : At(data, idx).date = date

\* the return of the open position at the close of a bar, as a fraction of
\* the price the position was entered at
OpenReturn(entryPrice, idx) ==
    RDiv(RSub(At(data, idx).close, entryPrice), entryPrice)

StopLossHit(entryPrice, idx) ==
    RGt(stopLossPercent, Zero)
        /\ RLe(OpenReturn(entryPrice, idx), RNeg(stopLossPercent))

TakeProfitHit(entryPrice, idx) ==
    RGt(takeProfitPercent, Zero)
        /\ RGe(OpenReturn(entryPrice, idx), takeProfitPercent)

RiskHit(entryPrice, idx) ==
    StopLossHit(entryPrice, idx) \/ TakeProfitHit(entryPrice, idx)

\* C5: while long, at the first bar after the entry bar whose close is at or
\* below the stop-loss return or at or above the take-profit return, the
\* position is liquidated at that bar (exitDate is that bar's date), and no
\* crossover entry or exit is acted on in that bar: the log does not grow
\* and the run is flat after the bar.  No earlier bar of an open or closed
\* trade met either threshold.
C5_RiskStep ==
    (InLoop /\ inPosition /\ RiskHit(trades[Len(trades)].entryPrice, i))
        => /\ ~inPosition'
           /\ Len(trades') = Len(trades)
           /\ trades'[Len(trades)].exitDate = At(data, i).date
           /\ trades'[Len(trades)].exitPrice = ExitFillPrice(i)
           /\ currentShares' = Zero
           /\ i' = i + 1

C5_FirstTrigger ==
    \A k \in 1..Len(trades) :
        LET entered == BarOf(trades[k].entryDate)
            upTo == IF Finalized(trades[k])
                    THEN BarOf(trades[k].exitDate) - 1 ELSE i - 1
        IN  \A idx \in (entered + 1)..upTo :
                ~RiskHit(trades[k].entryPrice, idx)

C5_RiskExitPriority == []C5_FirstTrigger /\ [][C5_RiskStep]_vars

\* a stop loss closed the position on a bar where the fast average is still
\* above the slow one (no crossover exit), on a bar after the entry bar
C5_Witness ==
    /\ pc = "loop" /\ i > 0 /\ ~inPosition /\ trades # <<>>
    /\ trades[Len(trades)].exitDate = At(data, i - 1).date
    /\ StopLossHit(trades[Len(trades)].entryPrice, i - 1)
    /\ currentCross(i - 1)
    /\ BarOf(trades[Len(trades)].entryDate) < i - 1

\* the fill of a decision taken at a bar: the next bar's open when there is
\* a next bar and its open is positive, else the bar's close
FillAt(idx) ==
    IF idx + 2 <= Len(data) /\ data[idx + 2].open[1] > 0 /\ data[idx + 2].open[2] > 0
    THEN data[idx + 2].open ELSE data[idx + 1].close

\* the bar a step decides at: the loop's bar, or the last bar for the
\* forced close after the loop
DecisionBar == IF i < Len(data) THEN i ELSE Len(data) - 1

\* C6: every transition executed at bar index i (entry, crossover exit, risk
\* exit, final forced close) records as entryPrice/exitPrice the open of bar
\* i+1 when that bar exists and its open is positive, else the close of bar
\* i, and records date[i], the decision bar, as entryDate/exitDate.
C6_FillStep ==
    /\ Len(trades') = Len(trades) + 1
          => /\ trades'[Len(trades')].entryPrice = FillAt(DecisionBar)
             /\ trades'[Len(trades')].entryDate = data[DecisionBar + 1].date
    /\ (inPosition /\ ~inPosition')
          => /\ trades'[Len(trades)].exitPrice = FillAt(DecisionBar)
             /\ trades'[Len(trades)].exitDate = data[DecisionBar + 1].date

C6_Recorded ==
    \A k \in 1..Len(trades) :
        /\ trades[k].entryPrice = FillAt(BarOf(trades[k].entryDate))
        /\ Finalized(trades[k])
              => trades[k].exitPrice = FillAt(BarOf(trades[k].exitDate))

C6_FillRule == []C6_Recorded /\ [][C6_FillStep]_vars

\* a closed trade entered at a bar's close because the next open is not
\* positive and exited at the next bar's open, which is not the exit bar's
\* close
C6_Witness ==
    /\ trades # <<>>
    /\ Finalized(trades[1])
    /\ LET entered == BarOf(trades[1].entryDate)
           exited == BarOf(trades[1].exitDate)
       IN  /\ entered + 1 < Len(data)
           /\ At(data, entered + 1).open = Zero
           /\ trades[1].entryPrice = At(data, entered).close
           /\ exited + 1 < Len(data)
           /\ trades[1].exitPrice = At(data, exited + 1).open
           /\ trades[1].exitPrice # At(data, exited).close

\* the cash an entry can spend: the cash less the entry commission on it
CashLessCommission == RSub(currentCash, RMul(currentCash, commissionRate))

\* the fraction an entry is to commit
KellyShare ==
    IF useKellyCriterion /\ Len(trades) >= 5 THEN KellyOf(trades) ELSE One

\* C7: with Kelly sizing enabled and at least 5 completed trades an entry
\* commits only the fraction f = calculateKellyFraction() of the available
\* cash to shares and the remainder (1 - f) of the available cash stays as
\* free cash, so cash + shares * entryPrice right after the entry equals
\* the available cash; with Kelly disabled or fewer than 5 trades the whole
\* available cash is invested.
C7_EntryStep ==
    Len(trades') = Len(trades) + 1
        => LET invested == RMul(currentShares', trades'[Len(trades')].entryPrice)
           IN  /\ invested = RMul(CashLessCommission, KellyShare)
               /\ currentCash' = RMul(CashLessCommission, RSub(One, KellyShare))
               /\ RAdd(currentCash', invested) = CashLessCommission

C7_KellyRemainder == [][C7_EntryStep]_vars

\* a Kelly-sized position: the sixth trade is open, and the fraction computed
\* from the five completed trades is strictly between 0 and 1
C7_Witness ==
    /\ inPosition /\ useKellyCriterion /\ Len(trades) = 6
    /\ RGt(KellyOf(SubSeq(trades, 1, 5)), Zero)
    /\ RLt(KellyOf(SubSeq(trades, 1, 5)), One)
    /\ RGt(currentShares, Zero)

\* the crossover candidates of a bar, read off the two moving averages
FastAbove(idx) == RGt(At(shortMA, idx), At(longMA, idx))

EntryCandidate(idx) == idx > 0 /\ FastAbove(idx) /\ ~FastAbove(idx - 1)

ExitCandidate(idx) ==
    /\ idx > 0
    /\ RLe(At(shortMA, idx), At(longMA, idx))
    /\ FastAbove(idx - 1)

NoFilters == ~useRSI /\ ~useMACD /\ ~useBollinger

\* C8: the RSI, MACD and Bollinger filters can turn an entry candidate off
\* but never create one and never affect an exit candidate: a trade is
\* opened only on a bar with an entry candidate, and always on such a bar
\* when flat with no filter enabled; while long, a bar with an exit
\* candidate and no risk trigger closes the position at that bar for every
\* combination of useRSI/useMACD/useBollinger and every indicator value.
C8_FilterStep ==
    /\ Len(trades') = Len(trades) + 1 => EntryCandidate(i)
    /\ (InLoop /\ ~inPosition /\ EntryCandidate(i) /\ NoFilters)
          => Len(trades') = Len(trades) + 1
    /\ (InLoop /\ inPosition /\ ExitCandidate(i)
          /\ ~RiskHit(trades[Len(trades)].entryPrice, i))
          => /\ ~inPosition'
             /\ Len(trades') = Len(trades)
             /\ trades'[Len(trades)].exitDate = At(data, i).date

C8_FiltersNarrowEntriesOnly == [][C8_FilterStep]_vars

\* with the Bollinger filter enabled: an earlier entry candidate was turned
\* off by it (no trade carries that bar's date), and the position was closed
\* on an exit candidate at a bar whose close is above the upper band
C8_Witness ==
    /\ pc = "loop" /\ i > 0 /\ ~inPosition /\ trades # <<>> /\ useBollinger
    /\ trades[Len(trades)].exitDate = At(data, i - 1).date
    /\ ExitCandidate(i - 1)
    /\ AboveUpper(At(data, i - 1).close, At(bb.upper, i - 1))
    /\ \E idx \in longPeriod..(i - 1) :
          /\ EntryCandidate(idx)
          /\ AboveUpper(At(data, idx).close, At(bb.upper, idx))
          /\ \A k \in 1..Len(trades) : trades[k].entryDate # At(data, idx).date

\* the monotone uptrend scenario: 250 bars rising from 100.0 by 1.0 per bar,
\* shortPeriod 10, longPeriod 50, SMA crossover, no filters, no risk exits
UptrendScenario ==
    /\ Len(data) = 250
    /\ \A k \in 1..250 : data[k].close = R(99 + k) /\ data[k].open = R(99 + k)
    /\ shortPeriod = 10 /\ longPeriod = 50
    /\ ~useEMA /\ NoFilters
    /\ stopLossPercent = Zero /\ takeProfitPercent = Zero

\* C9: on the monotone uptrend the run records exactly one trade, entered
\* near index 50, which is not exited before the final forced liquidation,
\* and the total return is positive.
C9_UptrendOneTrade ==
    (UptrendScenario /\ pc = "done")
        => /\ Len(trades) = 1
           /\ BarOf(trades[1].entryDate) \in 45..55
           /\ trades[1].exitDate = data[Len(data)].date
           /\ RGt(totalReturn, Zero)

\* the uptrend run has returned: the fast average is above the slow one on
\* the bar before the loop's first bar already, and the log is empty
C9_Witness ==
    /\ UptrendScenario /\ pc = "done"
    /\ FastAbove(longPeriod - 1)
    /\ trades = <<>>
    /\ totalReturn = Zero

\* a single round trip at equal fills with commissionRate 0.01 and Kelly
\* sizing disabled: the first trade of a run, closed
EqualFillRoundTrip ==
    /\ trades # <<>> /\ Finalized(trades[1])
    /\ commissionRate = Frac(1, 100)
    /\ ~useKellyCriterion
    /\ trades[1].entryPrice = trades[1].exitPrice

\* C10: for a single round trip of notional N at equal entry and exit fills
\* with commissionRate c = 0.01 and Kelly disabled, the loss recorded for the
\* trade (its pnl, negated) includes the entry and the exit commission: it
\* is nearer to 2*c*N than to c*N.
C10_RoundTripCommission ==
    EqualFillRoundTrip
        => LET N == RMul(trades[1].shares, trades[1].entryPrice)
               loss == RNeg(trades[1].pnl)
               once == RMul(commissionRate, N)
               twice == RMul(R(2), once)
               gapTwice == IF RGe(loss, twice) THEN RSub(loss, twice)
                           ELSE RSub(twice, loss)
               gapOnce == IF RGe(loss, once) THEN RSub(loss, once)
                          ELSE RSub(once, loss)
           IN  RLt(gapTwice, gapOnce)

\* the round trip is recorded: 100000 of cash bought 99000 of notional, and
\* the trade's pnl is the exit commission alone
C10_Witness ==
    /\ EqualFillRoundTrip
    /\ initialCapital = R(100000)
    /\ RMul(trades[1].shares, trades[1].entryPrice) = R(99000)
    /\ trades[1].pnl = R(0 - 990)
    /\ pc = "done" /\ currentCash = R(98010)

\* the sum of the returnPct of the trades of a log at a set of positions
RECURSIVE SumReturnPct(_, _)
SumReturnPct(log, at) ==
    IF at = {} THEN Zero
    ELSE LET k == CHOOSE k \in at : \A m \in at : k <= m
         IN  RAdd(log[k].returnPct, SumReturnPct(log, at \ {k}))

Winners(log) == { k \in 1..Len(log) : RGt(log[k].pnl, Zero) }

Others(log) == (1..Len(log)) \ Winners(log)

MeanWin(log) == RDiv(SumReturnPct(log, Winners(log)), R(Cardinality(Winners(log))))

MeanLoss(log) ==
    RDiv(RNeg(SumReturnPct(log, Others(log))), R(Cardinality(Others(log))))

\* 0.5 * (winRate - (1 - winRate) / (avgWin / avgLoss))
HalfKelly(log) ==
    LET winRate == Frac(Cardinality(Winners(log)), Len(log))
    IN  RMul(Frac(1, 2),
             RSub(winRate,
                  RDiv(RSub(One, winRate), RDiv(MeanWin(log), MeanLoss(log)))))

KellyFallback(log) ==
    \/ Len(log) < 5
    \/ Winners(log) = {}
    \/ Others(log) = {}
    \/ MeanLoss(log) = Zero

Clamp01(x) == IF RLt(x, Zero) THEN Zero ELSE IF RGt(x, One) THEN One ELSE x

\* C11: for every trade history calculateKellyFraction returns a value in
\* [0, 1]; exactly 1.0 when fewer than 5 trades exist, when no trade has
\* pnl > 0, when every trade has pnl > 0, or when the mean loss is 0;
\* otherwise 0.5 * (winRate - (1 - winRate) / (avgWin / avgLoss)) clamped to
\* [0, 1], avgWin and avgLoss being the mean returnPct magnitudes of the
\* winning and the non-winning trades (where that expression is a number).
C11_KellyRange ==
    pc = "returned"
        => /\ RGe(out, Zero) /\ RLe(out, One)
           /\ KellyFallback(trades) => out = One
           /\ (~KellyFallback(trades) /\ ~IsNaN(HalfKelly(trades)))
                 => out = Clamp01(HalfKelly(trades))

\* a history of winners and losers whose half Kelly lies strictly inside
\* (0, 1) has been sized
C11_Witness ==
    /\ pc = "returned"
    /\ Len(trades) >= 5
    /\ ~KellyFallback(trades)
    /\ RGt(out, Zero) /\ RLt(out, One)
    /\ out = HalfKelly(trades)

\* C12: at every bar from longPeriod on at which the replay of
\* calculateMaxDrawdown holds no trade, the equity it uses equals the cash
\* the ledger held at that bar during run(): initialCapital before the
\* first entry, and after an exit the proceeds after commission.
C12_FlatEquityIsCash ==
    (pc \in {"loop", "done"} /\ i > longPeriod /\ ~inPosition)
        => LET replay == ReplayUpTo(trades, i - 1)
           IN  ~replay.holding => replay.equity = currentCash

\* run() has returned flat from a round trip that paid commission: the
\* replay's equity at the last bar is the gross proceeds of the exit, which
\* is more than the cash the exit left
C12_Witness ==
    /\ pc = "done" /\ ~inPosition /\ Len(trades) = 1
    /\ RGt(commissionRate, Zero)
    /\ BarOf(trades[1].exitDate) < Len(data) - 1
    /\ LET replay == ReplayUpTo(trades, Len(data) - 1)
       IN  /\ ~replay.holding
           /\ replay.equity = RMul(trades[1].shares, trades[1].exitPrice)
           /\ RGt(replay.equity, currentCash)

ExitCrossover(idx) == idx > 0 /\ ~FastAbove(idx) /\ FastAbove(idx - 1)

\* C13: with stopLossPercent <= 0 the stop loss never fires and with
\* takeProfitPercent <= 0 the take profit never fires, for any price path:
\* a bar of the loop closes a position only on an exit crossover, or on a
\* threshold whose configured percent is positive; with both <= 0 every exit
\* of the trade log is on a bar with an exit crossover or is the final
\* forced close.
C13_NeverFires ==
    \A idx \in 0..(Len(data) - 1) :
        /\ RLe(stopLossPercent, Zero) => ~checkStopLoss(idx)
        /\ RLe(takeProfitPercent, Zero) => ~checkTakeProfit(idx)

C13_ExitStep ==
    (InLoop /\ inPosition /\ ~inPosition')
        => \/ ExitCrossover(i)
           \/ RGt(stopLossPercent, Zero)
                /\ StopLossHit(trades[Len(trades)].entryPrice, i)
           \/ RGt(takeProfitPercent, Zero)
                /\ TakeProfitHit(trades[Len(trades)].entryPrice, i)

C13_ExitsWithoutRisk ==
    (RLe(stopLossPercent, Zero) /\ RLe(takeProfitPercent, Zero))
        => \A k \in 1..Len(trades) :
              Finalized(trades[k])
                  => \/ ExitCrossover(BarOf(trades[k].exitDate))
                     \/ /\ pc = "done" /\ k = Len(trades)
                        /\ BarOf(trades[k].exitDate) = Len(data) - 1

C13_RiskDisabledAtZero ==
    /\ []C13_NeverFires
    /\ []C13_ExitsWithoutRisk
    /\ [][C13_ExitStep]_vars

\* with both percents negative a position was held over a bar whose close
\* was below the entry price and was closed on a later exit crossover
C13_Witness ==
    /\ RLt(stopLossPercent, Zero) /\ RLt(takeProfitPercent, Zero)
    /\ trades # <<>> /\ Finalized(trades[1])
    /\ LET entered == BarOf(trades[1].entryDate)
           exited == BarOf(trades[1].exitDate)
       IN  /\ exited >= entered + 2
           /\ RLt(At(data, entered + 1).close, trades[1].entryPrice)
           /\ ExitCrossover(exited)

\* Kelly sizing is not active for the entry that follows a log
KellyInactive(log) == ~useKellyCriterion \/ Len(log) < 5

\* C14: with commissionRate = 0 and Kelly sizing not active, an entry puts
\* the whole cash into the position, and an exit at the entry's fill price
\* finalizes the trade with pnl == 0 and returnPct == 0 and returns that
\* cash: the cash after the exit equals the cash before the entry.
C14_EntryStep ==
    (commissionRate = Zero /\ Len(trades') = Len(trades) + 1 /\ KellyInactive(trades))
        => RMul(trades'[Len(trades')].shares, trades'[Len(trades')].entryPrice)
              = currentCash

C14_ExitStep ==
    (commissionRate = Zero /\ inPosition /\ ~inPosition'
       /\ KellyInactive(SubSeq(trades, 1, Len(trades) - 1))
       /\ trades'[Len(trades)].exitPrice = trades[Len(trades)].entryPrice)
        => /\ trades'[Len(trades)].pnl = Zero
           /\ trades'[Len(trades)].returnPct = Zero
           /\ currentCash'
                 = RMul(trades[Len(trades)].shares, trades[Len(trades)].entryPrice)

C15_WarmUpSentinel ==
    pc = "returned"
        => LET n == Len(arg.prices)
           IN  /\ Len(out.series) = n
               /\ \A idx \in 0..(n - 1) :
                     (idx < arg.period - 1 \/ n < arg.period)
                         => out.series[idx + 1] = Zero
               /\ out.access.prices \subseteq 0..(n - 1)
               /\ out.access.result \subseteq 0..(n - 1)

\* an average of period 3 over a series of nonzero prices long enough to
\* leave the warm-up has returned: two sentinels, then a value
C15_Witness ==
    /\ pc = "returned"
    /\ arg.period = 3 /\ Len(arg.prices) > 3
    /\ \A k \in 1..Len(arg.prices) : arg.prices[k] # Zero
    /\ out.series[1] = Zero /\ out.series[2] = Zero
    /\ out.series[3] # Zero
    /\ (Len(arg.prices) - 1) \in out.access.result

PositivePrices ==
    \A k \in 1..Len(data) : RGt(data[k].open, Zero) /\ RGt(data[k].close, Zero)

\* C16: for initialCapital > 0, strictly positive prices and
\* 0 <= commissionRate < 1, with any setting of useKelly, every entry leaves
\* currentShares > 0: the ledger never holds cash == 0 and shares == 0 at
\* once, and the cost basis shares * entryPrice that divides the pnl in
\* exitPosition's returnPct is not zero for any trade.
C16_PositivePosition ==
    (RGt(initialCapital, Zero) /\ PositivePrices
       /\ RGe(commissionRate, Zero) /\ RLt(commissionRate, One))
        => /\ inPosition => RGt(currentShares, Zero)
           /\ ~(currentCash = Zero /\ currentShares = Zero)
           /\ \A k \in 1..Len(trades) :
                 RMul(trades[k].shares, trades[k].entryPrice) # Zero

\* on positive prices the sixth entry was sized with a Kelly fraction of 0:
\* the position holds no shares and the cash is gone
C16_Witness ==
    /\ PositivePrices /\ useKellyCriterion
    /\ inPosition /\ Len(trades) = 6
    /\ KellyOf(SubSeq(trades, 1, 5)) = Zero
    /\ currentShares = Zero /\ currentCash = Zero

\* the sum of the pnl of the first n trades of a log
RECURSIVE SumPnl(_, _)
SumPnl(log, n) ==
    IF n = 0 THEN Zero ELSE RAdd(SumPnl(log, n - 1), log[n].pnl)

====
